---------------------------- MODULE Spec2Model ----------------------------
(***************************************************************************)
(* homebridge-seam: the Platform Reconciler (SeamPlatform, platform.ts)    *)
(* and the Device Accessory Controller (LockAccessory,                     *)
(* platformAccessory.ts) as two state machines over one set of variables.  *)
(*                                                                         *)
(*   PlatformSpec  the reconciler: cache restore, discoverDevices,         *)
(*                 updateDevices, the refresh timer and its setImmediate   *)
(*                 callbacks, with listDevices as a suspension point.      *)
(*   LockSpec      one LockAccessory on its accessory: the staleness       *)
(*                 check, setLockTargetState, the remote lock/unlock calls *)
(*                 in flight and the PQueue of concurrency 1.              *)
(*                                                                         *)
(* Node runs every handler to its next await without interruption, so an   *)
(* action is one handler run from one suspension point to the next.        *)
(***************************************************************************)
EXTENDS Integers, Sequences, FiniteSets, Bags, TLC

(***************************************************************************)
(* Bounds of the model.                                                    *)
(***************************************************************************)
MaxPoll == 2       \* longest listing of the whole inventory
MaxPasses == 2     \* discoverDevices invocations by the host
MaxTime == 1       \* last value of the millisecond clock
MaxTimers == 2     \* refresh timers that can be live at once
MaxInflight == 2   \* updateDevices calls suspended at listDevices at once
MaxQueue == 2      \* lock/unlock commands not yet resolved at once

VARIABLES
    \* ---- SeamPlatform (platform.ts)
    accessories,            \* this.accessories: uuid -> accessory context
    devices,                \* this.devices: device_id -> uuid
    discoveredCacheUUIDs,   \* this.discoveredCacheUUIDs, as the set of its
                            \* elements (it is only read by includes())
    timeout,                \* this.timeout: 0 (undefined) or a timer
    \* ---- the host and the Node event loop around the platform
    registered,             \* host registry: uuid -> times registered
    controllers,            \* uuids a LockAccessory has been constructed on
    timers,                 \* live setInterval timers
    immediates,             \* timers whose setImmediate callback is queued
    discovering,            \* a discoverDevices call awaits listDevices
    updating,               \* bag of the filters of the updateDevices calls
                            \* that await listDevices
    launched,               \* discoverDevices invocations so far
    trace,                  \* what the last platform step did (history)
    failedPending,          \* an updateDevices call failed and none has
                            \* started since (history)
    \* ---- shared
    now,                    \* the clock read by new Date()
    \* ---- LockAccessory (platformAccessory.ts)
    context,                \* accessory.context: device and lastUpdated
    device,                 \* this.device
    lastUpdated,            \* this.lastUpdated
    states,                 \* this.states
    queue,                  \* this.queue: the tasks not yet resolved, the
                            \* running one first, each with its remote call
    \* ---- the host and the Node runtime around the controller
    pushed,                 \* last value given to updateCharacteristic
    unhandled,              \* a rejection was reported as unhandled
    optimistic,             \* last target value set by setLockTargetState
                            \* (history)
    ltrace                  \* what the last controller step did (history)

pvars == <<accessories, devices, discoveredCacheUUIDs, timeout, registered,
           controllers, timers, immediates, discovering, updating, launched,
           trace, failedPending>>

lvars == <<context, device, lastUpdated, states, queue, pushed, unhandled,
           optimistic, ltrace>>

vars == <<pvars, now, lvars>>

(***************************************************************************)
(* Values.                                                                 *)
(***************************************************************************)
\* The devices of the remote workspace.
DeviceIds == {1, 2}
TimerIds == 1..MaxTimers
None == "none"

\* device_type values that get a LockAccessory (platform.ts 148-165)
LockTypes ==
    {"akuvox_lock", "august_lock", "doorking_lock", "igloo_lock",
     "linear_lock", "lockly_lock", "kwikset_lock", "nuki_lock", "salto_lock",
     "schlage_lock", "smartthings_lock", "wyze_lock", "yale_lock",
     "ttlock_lock", "igloohome_lock", "hubitat_lock", "tedee_lock",
     "akiles_lock"}

\* device_type values that throw 'Not implemented yet' (platform.ts 170-178)
UnsupportedTypes ==
    {"brivo_access_point", "butterflymx_panel", "avigilon_alta_entry",
     "genie_door", "seam_relay", "two_n_intercom", "controlbyweb_device",
     "four_suites_door", "dormakaba_oracode_door"}

\* The device_type of each device: a lock and a known but unsupported one.
DeviceType(d) == IF d = 1 THEN "august_lock" ELSE "butterflymx_panel"

\* What a fetch can find in the devices' display names and properties; the
\* platform stores it and never reads it.
SnapshotContents == {"p", "q"}

Snapshot(d, p) == [device_id |-> d, device_type |-> DeviceType(d), props |-> p]

Snapshots(ids) == {Snapshot(d, p) : d \in ids, p \in SnapshotContents}

\* What listDevices() can resolve to: any listing of the inventory, a device
\* possibly more than once.
Listings ==
    UNION {{[i \in 1..n |-> Snapshot(order[i], p)] :
               order \in [1..n -> DeviceIds], p \in SnapshotContents} :
           n \in 0..MaxPoll}

RECURSIVE Ascending(_)
Ascending(ids) ==
    IF ids = {} THEN <<>>
    ELSE LET d == CHOOSE x \in ids : \A y \in ids : x <= y
         IN  <<d>> \o Ascending(ids \ {d})

\* What listDevices(deviceIds) can resolve to: one snapshot for each of the
\* asked devices the service still has.
FilteredListings(ids) ==
    {[i \in 1..Cardinality(found) |-> Snapshot(Ascending(found)[i], p)] :
        found \in SUBSET ids, p \in SnapshotContents}

\* api.hap.uuid.generate: a deterministic, injective digest of the device id
Generate(device_id) == <<"uuid", device_id>>

UUIDs == {Generate(d) : d \in DeviceIds}

\* Map.set
MapSet(m, k, v) == [x \in (DOMAIN m) \cup {k} |-> IF x = k THEN v ELSE m[x]]

EmptyMap == [x \in {} |-> None]

Event(e, polled, raisedAt) ==
    [event |-> e, polled |-> polled, raisedAt |-> raisedAt]

Other == Event("other", {}, None)


(***************************************************************************)
(* Values of the controller.                                               *)
(***************************************************************************)
\* Characteristic.LockCurrentState and Characteristic.LockTargetState
UNSECURED == 0
SECURED == 1
UNKNOWN == 3
\* Characteristic.StatusLowBattery
BATTERY_LEVEL_NORMAL == 0
BATTERY_LEVEL_LOW == 1
\* Characteristic.ContactSensorState
CONTACT_DETECTED == 0
CONTACT_NOT_DETECTED == 1

Undefined == "undefined"

\* properties.battery: absent (the empty sequence), or one record of a
\* status and a level in tenths.
Batteries ==
    {<<>>, <<[status |-> "good", level |-> 8]>>,
     <<[status |-> "critical", level |-> 2]>>}

\* device.properties; locked and door_open are "true", "false" or absent.
AllProperties ==
    [online : BOOLEAN, locked : {"true", "false", Undefined},
     door_open : {"true", "false", Undefined}, battery : Batteries]

Properties(online, locked, door_open, battery) ==
    [online |-> online, locked |-> locked, door_open |-> door_open,
     battery |-> battery]

\* The properties the fetches of one controller's device find: locked with
\* the door closed, unlocked with the door open and the battery critical,
\* offline, and online with no lock state reported.
DeviceProperties ==
    {Properties(TRUE, "true", "false", <<[status |-> "good", level |-> 8]>>),
     Properties(TRUE, "false", "true",
                <<[status |-> "critical", level |-> 2]>>),
     Properties(FALSE, "true", Undefined, <<>>),
     Properties(TRUE, Undefined, "false", <<>>)}

\* The values the host can hand to the LockTargetState set handler.
TargetValues == {UNSECURED, SECURED, UNKNOWN}

\* No characteristic value: nothing given to the host yet, no argument.
Unset == -1

LEvent(e, value) == [event |-> e, value |-> value]

LOther == LEvent("other", Unset)

(***************************************************************************)
(* Construction.                                                           *)
(***************************************************************************)
\* new SeamPlatform(log, config, api), with credentials configured
PlatformConstructed ==
    /\ accessories = EmptyMap
    /\ devices = EmptyMap
    /\ discoveredCacheUUIDs = {}
    /\ timeout = 0
    /\ registered = [u \in UUIDs |-> 0]
    /\ controllers = {}
    /\ timers = {}
    /\ immediates = {}
    /\ discovering = FALSE
    /\ updating = EmptyBag
    /\ launched = 0
    /\ trace = Other
    /\ failedPending = FALSE

\* this.states of a new LockAccessory
InitialStates ==
    [StatusLowBattery |-> BATTERY_LEVEL_NORMAL,
     BatteryLevel |-> 100,
     LockCurrentState |-> SECURED,
     LockTargetState |-> SECURED,
     ContactSensorState |-> CONTACT_DETECTED]

NothingPushed ==
    [StatusLowBattery |-> Unset, BatteryLevel |-> Unset,
     LockCurrentState |-> Unset, LockTargetState |-> Unset,
     ContactSensorState |-> Unset]

\* new LockAccessory(platform, accessory), on an accessory whose context
\* the platform has just written
LockConstructed(props) ==
    /\ context = [device |-> props, lastUpdated |-> now]
    /\ device = props
    /\ lastUpdated = now
    /\ states = InitialStates
    /\ queue = <<>>
    /\ pushed = NothingPushed
    /\ unhandled = FALSE
    /\ optimistic = Unset
    /\ ltrace = LOther

\* The platform's clock value is only ever stored: contexts restored from
\* the host's cache carry time 0, contexts written in this run time 1.
PlatformInit ==
    /\ PlatformConstructed
    /\ now = 1
    /\ LockConstructed([online |-> TRUE, locked |-> "true",
                        door_open |-> "false", battery |-> <<>>])

LockInit ==
    /\ PlatformConstructed
    /\ now = 0
    /\ \E props \in DeviceProperties : LockConstructed(props)

(***************************************************************************)
(* SeamPlatform                                                            *)
(***************************************************************************)
\* The clock advances between handlers.
TimePasses ==
    /\ now < MaxTime
    /\ now' = now + 1
    /\ UNCHANGED <<pvars, lvars>>

\* configureAccessory: the host hands over an accessory of its persistent
\* cache (which it has registered itself), before didFinishLaunching.
ConfigureAccessory(snap) ==
    /\ launched = 0
    /\ Generate(snap.device_id) \notin DOMAIN accessories
    /\ accessories' = MapSet(accessories, Generate(snap.device_id),
                             [device |-> snap, lastUpdated |-> 0])
    /\ registered' = [registered EXCEPT ![Generate(snap.device_id)] = 1]
    /\ trace' = Other
    /\ UNCHANGED <<devices, discoveredCacheUUIDs, timeout, controllers, timers,
                   immediates, discovering, updating, launched, now,
                   failedPending>>
    /\ UNCHANGED lvars


\* The platform fields one discoverDevices run works on, and the uuid of the
\* device at which it threw (None while it has not).
Working ==
    [accessories |-> accessories, devices |-> devices,
     discoveredCacheUUIDs |-> discoveredCacheUUIDs, registered |-> registered,
     controllers |-> controllers, thrown |-> None]

\* discoverDevices, the branch of an accessory already in this.accessories:
\* its context is replaced and a further LockAccessory is constructed on it.
RestoreExisting(st, snap, uuid) ==
    [st EXCEPT
        !.accessories = MapSet(@, uuid, [device |-> snap, lastUpdated |-> now]),
        !.controllers = @ \cup {uuid},
        !.discoveredCacheUUIDs = @ \cup {uuid}]

\* A variant of AddNew that registers and tracks the accessory before it looks
\* at the device_type; C10 tells the code from it.
AddNewRegistersFirst(st, snap, uuid) ==
    [st EXCEPT
        !.controllers =
            IF snap.device_type \in LockTypes THEN @ \cup {uuid} ELSE @,
        !.registered[uuid] = @ + 1,
        !.accessories = MapSet(@, uuid, [device |-> snap, lastUpdated |-> now]),
        !.discoveredCacheUUIDs = @ \cup {uuid},
        !.thrown = IF snap.device_type \in UnsupportedTypes THEN uuid ELSE @]

\* discoverDevices, the branch of a device with no accessory: the switch on
\* device_type, then registerPlatformAccessories and this.accessories.set.
AddNew(st, snap, uuid) ==
    IF snap.device_type \in UnsupportedTypes
    THEN [st EXCEPT !.thrown = uuid]
    ELSE [st EXCEPT
            !.controllers =
                IF snap.device_type \in LockTypes THEN @ \cup {uuid} ELSE @,
            !.registered[uuid] = @ + 1,
            !.accessories =
                MapSet(@, uuid, [device |-> snap, lastUpdated |-> now]),
            !.discoveredCacheUUIDs = @ \cup {uuid}]

\* A variant of DiscoverOne without the lookup of an existing accessory; C11
\* tells the code from it.
DiscoverOneWithoutLookup(st, snap) ==
    AddNew([st EXCEPT !.devices =
                MapSet(@, snap.device_id, Generate(snap.device_id))],
           snap, Generate(snap.device_id))

\* One iteration of the loop over the listing.
DiscoverOne(st, snap) ==
    LET uuid == Generate(snap.device_id)
        st1 == [st EXCEPT !.devices = MapSet(@, snap.device_id, uuid)]
    IN  IF uuid \in DOMAIN st.accessories
        THEN RestoreExisting(st1, snap, uuid)
        ELSE AddNew(st1, snap, uuid)

\* The loop over the listing from its i-th element; a throw ends it.
RECURSIVE DiscoverLoop(_, _, _)
DiscoverLoop(st, listing, i) ==
    IF i > Len(listing) \/ st.thrown # None
    THEN st
    ELSE DiscoverLoop(DiscoverOne(st, listing[i]), listing, i + 1)

\* The loop over this.accessories that unregisters what was not discovered.
RemoveMissing(st) ==
    [st EXCEPT !.registered =
        [u \in UUIDs |->
            IF u \in DOMAIN st.accessories
               /\ u \notin st.discoveredCacheUUIDs
            THEN 0 ELSE @[u]]]

\* discoverDevices from the return of listDevices to the end of the loops.
Discover(listing) ==
    LET looped == DiscoverLoop([Working EXCEPT !.devices = EmptyMap], listing, 1)
    IN  IF looped.thrown # None THEN looped ELSE RemoveMissing(looped)

\* didFinishLaunching: discoverDevices runs to its await of listDevices.
DiscoverStart ==
    /\ ~discovering
    /\ launched < MaxPasses
    /\ discovering' = TRUE
    /\ launched' = launched + 1
    /\ trace' = Other
    /\ UNCHANGED <<accessories, devices, discoveredCacheUUIDs, timeout,
                   registered, controllers, timers, immediates, updating, now,
                   failedPending>>
    /\ UNCHANGED lvars

\* A variant of DiscoverListFails in which this.devices.clear() comes before
\* the await of listDevices; C6 tells the code from it.
DiscoverListFailsAfterClear ==
    /\ discovering
    /\ discovering' = FALSE
    /\ devices' = EmptyMap
    /\ trace' = Event("discoverListFailed", {}, None)
    /\ UNCHANGED <<accessories, discoveredCacheUUIDs, timeout, registered,
                   controllers, timers, immediates, updating, launched, now,
                   failedPending>>
    /\ UNCHANGED lvars

\* listDevices rejects inside discoverDevices: the call ends there.
DiscoverListFails ==
    /\ discovering
    /\ discovering' = FALSE
    /\ trace' = Event("discoverListFailed", {}, None)
    /\ UNCHANGED <<accessories, devices, discoveredCacheUUIDs, timeout,
                   registered, controllers, timers, immediates, updating,
                   launched, now, failedPending>>
    /\ UNCHANGED lvars

\* updateDevices up to its await: the timer in this.timeout is cleared and
\* listDevices is called with the keys of this.devices.
ClearTimeout == IF timeout # 0 THEN timers \ {timeout} ELSE timers

\* listDevices resolves inside discoverDevices: the loops run and, unless a
\* device threw, updateDevices is entered and runs to its own await.
DiscoverListReturns(listing) ==
    LET st == Discover(listing)
    IN  /\ discovering
        /\ discovering' = FALSE
        /\ accessories' = st.accessories
        /\ devices' = st.devices
        /\ discoveredCacheUUIDs' = st.discoveredCacheUUIDs
        /\ registered' = st.registered
        /\ controllers' = st.controllers
        /\ IF st.thrown # None
           THEN /\ trace' = Event("discoverRaised", {}, st.thrown)
                /\ UNCHANGED <<timers, updating, failedPending>>
           ELSE /\ BagCardinality(updating) < MaxInflight
                /\ trace' = Event("discovered",
                                  {Generate(listing[i].device_id) :
                                      i \in 1..Len(listing)}, None)
                /\ timers' = ClearTimeout
                /\ updating' = updating (+) SetToBag({DOMAIN st.devices})
                /\ failedPending' = FALSE
        /\ UNCHANGED <<timeout, immediates, launched, now>>
        /\ UNCHANGED lvars

\* The refresh timer fires: its callback queues a setImmediate callback,
\* which Node runs before the same timer can fire again.
TimerFires(t) ==
    /\ t \in timers
    /\ t \notin immediates
    /\ immediates' = immediates \cup {t}
    /\ trace' = Other
    /\ UNCHANGED <<accessories, devices, discoveredCacheUUIDs, timeout,
                   registered, controllers, timers, discovering, updating,
                   launched, now, failedPending>>
    /\ UNCHANGED lvars

\* The setImmediate callback runs updateDevices to its await of listDevices.
UpdateStart(t) ==
    /\ t \in immediates
    /\ BagCardinality(updating) < MaxInflight
    /\ immediates' = immediates \ {t}
    /\ timers' = ClearTimeout
    /\ updating' = updating (+) SetToBag({DOMAIN devices})
    /\ trace' = Other
    /\ failedPending' = FALSE
    /\ UNCHANGED <<accessories, devices, discoveredCacheUUIDs, timeout,
                   registered, controllers, discovering, launched, now>>
    /\ UNCHANGED lvars

\* listDevices rejects inside updateDevices: the call ends there, before
\* its setInterval.
UpdateListFails(ids) ==
    /\ BagIn(ids, updating)
    /\ updating' = updating (-) SetToBag({ids})
    /\ trace' = Event("updateListFailed", {}, None)
    /\ failedPending' = TRUE
    /\ UNCHANGED <<accessories, devices, discoveredCacheUUIDs, timeout,
                   registered, controllers, timers, immediates, discovering,
                   launched, now>>
    /\ UNCHANGED lvars

\* One iteration of updateDevices' loop over the listing.
UpdateOne(acc, snap) ==
    IF snap.device_id \notin DOMAIN devices
    THEN acc                                    \* 'Device not found'
    ELSE IF devices[snap.device_id] \notin DOMAIN acc
         THEN acc                               \* 'Accessory not found'
         ELSE MapSet(acc, devices[snap.device_id],
                     [device |-> snap, lastUpdated |-> now])

RECURSIVE UpdateLoop(_, _, _)
UpdateLoop(acc, listing, i) ==
    IF i > Len(listing)
    THEN acc
    ELSE UpdateLoop(UpdateOne(acc, listing[i]), listing, i + 1)

\* A timer object that is not in use.
FreeTimers == TimerIds \ (timers \cup immediates)

\* listDevices resolves inside updateDevices: the loop runs, then
\* setInterval makes a timer and stores it in this.timeout.
UpdateListReturns(ids, listing) ==
    /\ BagIn(ids, updating)
    /\ FreeTimers # {}
    /\ updating' = updating (-) SetToBag({ids})
    /\ accessories' = UpdateLoop(accessories, listing, 1)
    /\ LET t == CHOOSE x \in FreeTimers : \A y \in FreeTimers : x <= y
       IN  /\ timers' = timers \cup {t}
           /\ timeout' = t
    /\ trace' = Other
    /\ UNCHANGED <<devices, discoveredCacheUUIDs, registered, controllers,
                   immediates, discovering, launched, now, failedPending>>
    /\ UNCHANGED lvars

ListSettles ==
    \/ DiscoverListFails
    \/ \E listing \in Listings : DiscoverListReturns(listing)
    \/ \E ids \in SUBSET DeviceIds :
          \/ UpdateListFails(ids)
          \/ \E listing \in FilteredListings(ids) :
                UpdateListReturns(ids, listing)

EventLoop ==
    \/ \E t \in TimerIds : TimerFires(t)
    \/ \E t \in TimerIds : UpdateStart(t)

PlatformNext ==
    \/ \E snap \in Snapshots(DeviceIds) : ConfigureAccessory(snap)
    \/ DiscoverStart
    \/ ListSettles
    \/ EventLoop

PlatformSpec == PlatformInit /\ [][PlatformNext]_vars

\* The event loop runs what is due and the remote service answers every
\* call; the host owes no further launch.
PlatformFairSpec ==
    /\ PlatformSpec
    /\ WF_vars(EventLoop)
    /\ WF_vars(ListSettles)

(***************************************************************************)
(* LockAccessory                                                           *)
(***************************************************************************)
\* The continuation of the running task is due: the promise it awaits has
\* settled.  Node runs it before any other handler.
Due == queue # <<>> /\ queue[1].call # "pending"

\* A variant of updateState that caches the value without giving it to the
\* host; C18 tells the code from it.
UpdateStateWithoutPush(c, state, value) ==
    IF value = c.states[state]
    THEN c
    ELSE [states |-> [c.states EXCEPT ![state] = value], pushed |-> c.pushed]

\* updateState: an equal value is ignored, another one is cached and given
\* to the host.  c is the pair of this.states and the host's values.
UpdateState(c, state, value) ==
    IF value = c.states[state]
    THEN c
    ELSE [states |-> [c.states EXCEPT ![state] = value],
          pushed |-> [c.pushed EXCEPT ![state] = value]]

computeStatusLowBattery(d) ==
    IF d.battery # <<>> /\ d.battery[1].status \in {"low", "critical"}
    THEN BATTERY_LEVEL_LOW
    ELSE BATTERY_LEVEL_NORMAL

\* (battery?.level ?? 1) * 100, the level kept in tenths
computeBatteryLevel(d) ==
    IF d.battery = <<>> THEN 100 ELSE d.battery[1].level * 10

\* A variant of computeLockCurrentState that looks at the locked flag before
\* the online flag; C14 tells the code from it.
computeLockCurrentStateLockedFirst(d) ==
    IF d.locked = "true" THEN SECURED
    ELSE IF d.locked = "false" THEN UNSECURED
    ELSE UNKNOWN

computeLockCurrentState(d) ==
    IF ~d.online THEN UNKNOWN
    ELSE IF d.locked = Undefined THEN UNKNOWN
    ELSE IF d.locked = "true" THEN SECURED
    ELSE UNSECURED

\* A variant of computeContactSensorState that reads an absent door_open as
\* a closed door; C15 tells the code from it.
computeContactSensorStateAbsentClosed(d) ==
    IF d.door_open = "true" THEN CONTACT_NOT_DETECTED ELSE CONTACT_DETECTED

computeContactSensorState(d) ==
    IF d.door_open = "false" THEN CONTACT_DETECTED ELSE CONTACT_NOT_DETECTED

\* A variant of computeAll that gives every derived value to the host,
\* changed or not; C21 tells the code from it.
computeAllPushingAll(c, d) ==
    LET derived == [StatusLowBattery |-> computeStatusLowBattery(d),
                    BatteryLevel |-> computeBatteryLevel(d),
                    LockCurrentState |-> computeLockCurrentState(d),
                    LockTargetState |-> computeLockCurrentState(d),
                    ContactSensorState |-> computeContactSensorState(d)]
    IN  [states |-> derived, pushed |-> derived]

computeAll(c, d) ==
    LET c1 == UpdateState(c, "StatusLowBattery", computeStatusLowBattery(d))
        c2 == UpdateState(c1, "BatteryLevel", computeBatteryLevel(d))
        c3 == UpdateState(c2, "LockCurrentState", computeLockCurrentState(d))
        c4 == UpdateState(c3, "LockTargetState", computeLockCurrentState(d))
    IN  UpdateState(c4, "ContactSensorState", computeContactSensorState(d))

Cache == [states |-> states, pushed |-> pushed]

\* The platform replaces the accessory's context (discoverDevices and
\* updateDevices: context.device, context.lastUpdated).
ContextUpdated(props) ==
    /\ ~Due
    /\ context' = [device |-> props, lastUpdated |-> now]
    /\ ltrace' = LOther
    /\ UNCHANGED <<device, lastUpdated, states, queue, pushed, unhandled,
                   optimistic, now, pvars>>

\* A variant of StalenessCheck without the early return on a busy queue; C16
\* tells the code from it.
StalenessCheckIgnoringQueue ==
    /\ ~Due
    /\ ~(context.lastUpdated <= lastUpdated)
    /\ device' = context.device
    /\ lastUpdated' = now
    /\ LET c == computeAll(Cache, context.device)
       IN  /\ states' = c.states
           /\ pushed' = c.pushed
    /\ ltrace' = LEvent("recomputed", Unset)
    /\ UNCHANGED <<context, queue, unhandled, optimistic, now, pvars>>

\* The callback of the controller's setInterval, past its two early returns.
StalenessCheck ==
    /\ ~Due
    /\ Len(queue) = 0
    /\ ~(context.lastUpdated <= lastUpdated)
    /\ device' = context.device
    /\ lastUpdated' = now
    /\ LET c == computeAll(Cache, context.device)
       IN  /\ states' = c.states
           /\ pushed' = c.pushed
    /\ ltrace' = LEvent("recomputed", Unset)
    /\ UNCHANGED <<context, queue, unhandled, optimistic, now, pvars>>

\* A variant of ShortCircuit that compares with the cached target only; C7
\* tells the code from it.
ShortCircuitOnTargetOnly(value) == value = states.LockTargetState

\* The test that makes setLockTargetState return at once.
ShortCircuit(value) ==
    value = states.LockTargetState \/ value = states.LockCurrentState

\* setLockTargetState(value): the short-circuit; else the target is cached
\* and pushed, the remote call is started by doLockOrUnlock, and the task
\* that awaits it is added to the queue.
SetLockTargetState(value) ==
    /\ ~Due
    /\ IF ShortCircuit(value)
       THEN /\ ltrace' = LEvent("ignored", value)
            /\ UNCHANGED <<states, pushed, queue, optimistic>>
       ELSE /\ LET c == UpdateState(Cache, "LockTargetState", value)
               IN  /\ states' = c.states
                   /\ pushed' = c.pushed
            /\ optimistic' = value
            /\ IF value \in {SECURED, UNSECURED}
               THEN /\ Len(queue) < MaxQueue
                    /\ queue' = Append(queue,
                          [value |-> value,
                           action |-> IF value = SECURED THEN "lock"
                                      ELSE "unlock",
                           call |-> "pending"])
                    /\ ltrace' = LEvent("accepted", value)
               ELSE /\ queue' = queue
                    /\ ltrace' = LEvent("invalid", value)
    /\ UNCHANGED <<context, device, lastUpdated, unhandled, now, pvars>>

\* The remote lock/unlock call of the i-th task settles.  A rejection that
\* no task awaits yet is reported by Node as unhandled.
CallSettles(i, outcome) ==
    /\ ~Due
    /\ i \in 1..Len(queue)
    /\ queue[i].call = "pending"
    /\ queue' = [queue EXCEPT ![i].call = outcome]
    /\ unhandled' = (unhandled \/ (outcome = "rejected" /\ i > 1))
    /\ ltrace' = LOther
    /\ UNCHANGED <<context, device, lastUpdated, states, pushed, optimistic,
                   now, pvars>>

\* A variant of TaskResult without the catch branch; C8 tells the code from
\* it.
TaskResultWithoutCatch(task) == task.value

\* What the task sets LockCurrentState to: its value after the try, UNKNOWN
\* in the catch.
TaskResult(task) ==
    IF task.call = "resolved" THEN task.value ELSE UNKNOWN

\* A variant of TaskResumes in which the tasks run as their calls settle,
\* not one after the other; C22 tells the code from it.
TaskResumesInSettleOrder ==
    \E i \in 1..Len(queue) :
        /\ queue[i].call # "pending"
        /\ LET c == UpdateState(Cache, "LockCurrentState",
                                IF queue[i].call = "resolved"
                                THEN queue[i].value ELSE UNKNOWN)
           IN  /\ states' = c.states
               /\ pushed' = c.pushed
        /\ queue' = SubSeq(queue, 1, i - 1) \o SubSeq(queue, i + 1, Len(queue))
        /\ ltrace' = LEvent(IF queue[i].call = "resolved" THEN "taskDone"
                            ELSE "taskFailed", queue[i].value)
        /\ UNCHANGED <<context, device, lastUpdated, unhandled, optimistic,
                       now, pvars>>

\* A variant of TaskResumes in which a task whose call was rejected never
\* ends (no catch, and the queue waits for it); C20 tells the code from it.
TaskResumesOnlyOnSuccess ==
    /\ Due
    /\ queue[1].call = "resolved"
    /\ LET c == UpdateState(Cache, "LockCurrentState", queue[1].value)
       IN  /\ states' = c.states
           /\ pushed' = c.pushed
    /\ queue' = Tail(queue)
    /\ ltrace' = LEvent("taskDone", queue[1].value)
    /\ UNCHANGED <<context, device, lastUpdated, unhandled, optimistic, now,
                   pvars>>

\* The running task continues past its await and ends; the queue starts
\* the next task, which awaits its own promise.
TaskResumes ==
    /\ Due
    /\ LET c == UpdateState(Cache, "LockCurrentState", TaskResult(queue[1]))
       IN  /\ states' = c.states
           /\ pushed' = c.pushed
    /\ queue' = Tail(queue)
    /\ ltrace' = LEvent(IF queue[1].call = "resolved" THEN "taskDone"
                        ELSE "taskFailed", queue[1].value)
    /\ UNCHANGED <<context, device, lastUpdated, unhandled, optimistic, now,
                   pvars>>

RemoteSettles ==
    \E i \in 1..MaxQueue, outcome \in {"resolved", "rejected"} :
        CallSettles(i, outcome)

LockNext ==
    \/ TimePasses
    \/ \E props \in DeviceProperties : ContextUpdated(props)
    \/ StalenessCheck
    \/ \E value \in TargetValues : SetLockTargetState(value)
    \/ RemoteSettles
    \/ TaskResumes

LockSpec == LockInit /\ [][LockNext]_vars

\* The controller's interval keeps ticking, every remote call settles and
\* Node runs the continuation of a task whose promise has settled.  (Each of
\* these steps changes the variable in its subscript.)
LockFairSpec ==
    /\ LockSpec
    /\ WF_lastUpdated(StalenessCheck)
    /\ WF_queue(RemoteSettles)
    /\ WF_queue(TaskResumes)

(***************************************************************************)
(* The derivation of the characteristics from a snapshot, over every       *)
(* snapshot: a LockAccessory with an idle queue that adopts what the       *)
(* platform writes to its accessory's context.                             *)
(***************************************************************************)
DeriveInit ==
    /\ PlatformConstructed
    /\ now = 0
    /\ \E props \in AllProperties : LockConstructed(props)

DeriveNext ==
    \/ TimePasses
    \/ \E props \in AllProperties : ContextUpdated(props)
    \/ StalenessCheck

DeriveSpec == DeriveInit /\ [][DeriveNext]_vars

(***************************************************************************)
(* Properties of LockSpec and PlatformSpec.                                *)
(***************************************************************************)
\* The remote lock/unlock calls that have been started and have not settled.
InFlight == {i \in 1..Len(queue) : queue[i].call = "pending"}

\* C1: for one device the remote lock/unlock calls never overlap: in every
\* reachable state at most one remote call is in flight.
C1_AtMostOneInFlight == Cardinality(InFlight) <= 1

\* C2: after a discoverDevices pass has completed, this.accessories holds
\* exactly the identifiers of that pass's listing.
C2_MapIsExactlyThePoll ==
    trace.event = "discovered" => DOMAIN accessories = trace.polled

\* C3: in every discoverDevices pass, a second or later one included, each
\* tracked accessory whose identifier is absent from that pass's listing is
\* unregistered from the host during the pass.
C3_AbsentAreUnregistered ==
    trace.event = "discovered" =>
        \A u \in DOMAIN accessories \ trace.polled : registered[u] = 0

\* C4: after an updateDevices call whose listDevices failed, a later
\* updateDevices call is eventually started.
C4_RefreshResumes == failedPending ~> ~failedPending

\* C5: at most one refresh timer is live, and a timer that this.timeout no
\* longer refers to is never live.
C5_OneLiveTimer ==
    /\ Cardinality(timers) <= 1
    /\ \A t \in timers : t = timeout

\* C6: when listDevices fails inside discoverDevices or updateDevices, the
\* call leaves this.accessories (the records, their snapshots and their
\* lastUpdated), this.devices and the host's registry as they were: neither
\* the step that runs the call to its await (didFinishLaunching, the
\* setImmediate callback) nor the step of the rejection changes them.
C6_ListFailureChangesNothing ==
    [][(\/ ~discovering /\ discovering'
        \/ immediates' # immediates /\ immediates' \subseteq immediates
        \/ trace'.event \in {"discoverListFailed", "updateListFailed"})
       => UNCHANGED <<accessories, devices, registered>>]_vars

C6_Witness ==
    /\ trace.event = "discoverListFailed"
    /\ accessories # EmptyMap
    /\ devices # EmptyMap
    /\ \E u \in UUIDs : registered[u] > 0

\* C7: setLockTargetState(value) with value equal to the cached target or to
\* the cached current state starts no remote call, adds no task to the queue
\* and leaves this.states and the host's characteristics unchanged.
C7_EqualValueIsNoOp ==
    [][(/\ ltrace'.event \in {"ignored", "accepted", "invalid"}
        /\ \/ ltrace'.value = states.LockTargetState
           \/ ltrace'.value = states.LockCurrentState)
       => UNCHANGED <<states, pushed, queue>>]_vars

C7_Witness ==
    /\ ltrace.event = "ignored"
    /\ ltrace.value = states.LockCurrentState
    /\ ltrace.value # states.LockTargetState
    /\ queue # <<>>

\* C8 as stated: when the remote call of an accepted setLockTargetState(value)
\* has failed and its task has ended, the cached and pushed current state is
\* UNKNOWN and the cached target is still that call's value.
C8_TargetIsTheFailedValue ==
    ltrace.event = "taskFailed" =>
        /\ states.LockCurrentState = UNKNOWN
        /\ pushed.LockCurrentState = UNKNOWN
        /\ states.LockTargetState = ltrace.value

\* C8, amended: when the remote call of an accepted setLockTargetState has
\* failed and its task has ended, the cached and pushed current state is
\* UNKNOWN and the cached target is the value most recently set by a
\* setLockTargetState call that passed the short-circuit (the failed call's
\* value unless a later call has replaced it).
C8_TargetIsTheLastSetValue ==
    ltrace.event = "taskFailed" =>
        /\ states.LockCurrentState = UNKNOWN
        /\ pushed.LockCurrentState = UNKNOWN
        /\ states.LockTargetState = optimistic
        /\ pushed.LockTargetState = optimistic

C8_Witness ==
    /\ ltrace.event = "taskFailed"
    /\ states.LockCurrentState = UNKNOWN
    /\ states.LockTargetState # ltrace.value
    /\ states.LockTargetState = optimistic

\* C9: setLockTargetState with a value that is neither SECURED nor UNSECURED
\* and that passes the short-circuit starts no remote call and changes
\* neither this.states nor the host's characteristics.
C9_InvalidValueChangesNothing ==
    [][ltrace'.event = "invalid" => UNCHANGED <<states, pushed, queue>>]_vars

\* C10: a discoverDevices pass that meets a device with no accessory and a
\* known but unsupported device_type throws at that device (it does not
\* complete), and the device is neither registered with the host nor added
\* to this.accessories.
C10_UnsupportedRaises ==
    [][/\ trace'.event = "discoverRaised" =>
            /\ trace'.raisedAt \notin DOMAIN accessories'
            /\ registered'[trace'.raisedAt] = 0
       /\ trace'.event = "discovered" =>
            \A d \in DeviceIds :
                (/\ Generate(d) \in trace'.polled
                 /\ DeviceType(d) \in UnsupportedTypes)
                => Generate(d) \in DOMAIN accessories]_vars

C10_Witness ==
    /\ trace.event = "discoverRaised"
    /\ trace.raisedAt = Generate(2)
    /\ trace.raisedAt \notin DOMAIN accessories
    /\ registered[trace.raisedAt] = 0
    /\ accessories # EmptyMap

\* C11: across cache restores and discovery passes, whatever the listings
\* (a device_id listed twice included), no identifier is registered with the
\* host more than once, only tracked identifiers are registered, and
\* this.devices names one identifier for each device id: the one of the
\* record tracked for it.
C11_RegisteredAtMostOnce ==
    /\ \A u \in UUIDs : registered[u] <= 1
    /\ \A u \in UUIDs : registered[u] > 0 => u \in DOMAIN accessories
    /\ \A d \in DOMAIN devices : devices[d] = Generate(d)

\* After a second pass that listed every device: the restored accessory of
\* device 2 has been found again, and every identifier is registered once.
C11_Witness ==
    /\ trace.event = "discovered"
    /\ trace.polled = UUIDs
    /\ Generate(2) \in controllers
    /\ \A u \in UUIDs : registered[u] = 1
    /\ launched = 2

\* C12: in the state the constructor of a LockAccessory leaves, this.states
\* equals what the compute functions derive from the snapshot in the
\* accessory's context (an online snapshot with locked = false gives the
\* current state UNSECURED).
C12_ConstructedFromSnapshot ==
    \A props \in DeviceProperties :
        LockConstructed(props) =>
            /\ states.StatusLowBattery = computeStatusLowBattery(props)
            /\ states.BatteryLevel = computeBatteryLevel(props)
            /\ states.LockCurrentState = computeLockCurrentState(props)
            /\ states.ContactSensorState = computeContactSensorState(props)

\* C13: the cached and pushed target state is SECURED or UNSECURED, never
\* UNKNOWN; stated here for the states a bulk recompute leaves (the case the
\* claim names: a snapshot that is offline or has no locked flag).
C13_TargetNeverUnknown ==
    ltrace.event = "recomputed" =>
        /\ states.LockTargetState \in {SECURED, UNSECURED}
        /\ pushed.LockTargetState \in {Unset, SECURED, UNSECURED}

\* C14: for every snapshot the derived current state is UNKNOWN when the
\* device is offline, whatever the locked flag; when it is online, SECURED
\* for locked = true, UNSECURED for locked = false and UNKNOWN when locked
\* is absent.  Read in this.states after a bulk recompute from the snapshot.
C14_LockCurrentStateDerivation ==
    ltrace.event = "recomputed" =>
        /\ ~device.online => states.LockCurrentState = UNKNOWN
        /\ (device.online /\ device.locked = "true")
               => states.LockCurrentState = SECURED
        /\ (device.online /\ device.locked = "false")
               => states.LockCurrentState = UNSECURED
        /\ (device.online /\ device.locked = Undefined)
               => states.LockCurrentState = UNKNOWN

C14_Witness ==
    /\ ltrace.event = "recomputed"
    /\ ~device.online
    /\ device.locked = "true"
    /\ states.LockCurrentState = UNKNOWN
    /\ pushed.LockCurrentState = UNKNOWN

\* C15: for every snapshot the derived contact sensor state is
\* CONTACT_NOT_DETECTED when door_open is true or absent and
\* CONTACT_DETECTED when door_open is false.  Read in this.states after a
\* bulk recompute from the snapshot.
C15_ContactSensorStateDerivation ==
    ltrace.event = "recomputed" =>
        /\ device.door_open \in {"true", Undefined}
               => states.ContactSensorState = CONTACT_NOT_DETECTED
        /\ device.door_open = "false"
               => states.ContactSensorState = CONTACT_DETECTED

C15_Witness ==
    /\ ltrace.event = "recomputed"
    /\ device.door_open = Undefined
    /\ states.ContactSensorState = CONTACT_NOT_DETECTED
    /\ pushed.ContactSensorState = CONTACT_NOT_DETECTED

\* C16: the staleness check runs no bulk recompute while the queue has a
\* running or waiting task; so, from the start of a remote lock/unlock call
\* to the end of that command's task, no recompute happens and the cached
\* target stays the value setLockTargetState set last.
C16_NoRecomputeWhileBusy ==
    [][/\ ltrace'.event = "recomputed" => (queue = <<>> /\ queue' = <<>>)
       /\ queue' # <<>> => states'.LockTargetState = optimistic']_vars

\* A command is in flight, a newer snapshot that derives another state waits
\* in the context, and the target is still the optimistic one.
C16_Witness ==
    /\ queue # <<>>
    /\ context.lastUpdated > lastUpdated
    /\ computeLockCurrentState(context.device) # optimistic
    /\ states.LockTargetState = optimistic
    /\ device # context.device

\* C17: if the queue is eventually idle, every snapshot the platform puts in
\* the accessory's context is eventually adopted by the controller (its
\* device is the context's device, recomputed), also when the replacement
\* carries the timestamp of the controller's last recompute.
C17_ReplacementAdopted ==
    <>[](queue = <<>>) => ((context.device # device) ~> (context.device = device))

\* C18: when the remote call of an accepted setLockTargetState(value), value
\* SECURED or UNSECURED, has succeeded and its task has ended, the cached and
\* pushed current state is value; and in the state where the remote call
\* starts the target is already cached and pushed as value.
C18_SuccessSetsCurrent ==
    /\ ltrace.event = "taskDone" =>
        /\ ltrace.value \in {SECURED, UNSECURED}
        /\ states.LockCurrentState = ltrace.value
        /\ pushed.LockCurrentState = ltrace.value
    /\ ltrace.event = "accepted" =>
        /\ queue # <<>>
        /\ queue[Len(queue)] =
               [value |-> ltrace.value,
                action |-> IF ltrace.value = SECURED THEN "lock" ELSE "unlock",
                call |-> "pending"]
        /\ states.LockTargetState = ltrace.value
        /\ pushed.LockTargetState = ltrace.value

C18_Witness ==
    /\ ltrace.event = "taskDone"
    /\ ltrace.value = UNSECURED
    /\ states.LockCurrentState = UNSECURED
    /\ pushed.LockCurrentState = UNSECURED
    /\ pushed.LockTargetState = UNSECURED

\* C19: a failure of a remote lock/unlock call is caught inside its own
\* queue task and never reaches the host runtime, also when the call fails
\* while an earlier command's task is still running: no rejection is ever
\* reported as unhandled.
C19_FailureStaysInTask == ~unhandled

\* C20: every remote call settling, every accepted command's task runs and
\* ends: once no further command is accepted the queue becomes and stays
\* empty, and a task leaves the queue only by running to its end, at the
\* head, one at a time (after a failed task as after any other).
C20_QueueDrains ==
    /\ <>[](ltrace.event # "accepted") => <>[](queue = <<>>)
    /\ [][Len(queue') < Len(queue) =>
            /\ queue' = Tail(queue)
            /\ queue[1].call # "pending"
            /\ ltrace'.event \in {"taskDone", "taskFailed"}]_vars

\* A task has failed and the task of a later command is still queued.
C20_Witness ==
    /\ ltrace.event = "taskFailed"
    /\ Len(queue) = 1
    /\ queue[1].call = "pending"
    /\ states.LockCurrentState = UNKNOWN

\* The characteristics this.states caches.
Fields == DOMAIN InitialStates

\* C21 as stated: a bulk recompute pushes only changes and is idempotent,
\* and after any recompute every cached field equals the last value pushed
\* for it.
C21_CacheEqualsPushed ==
    ltrace.event = "recomputed" => \A f \in Fields : states[f] = pushed[f]

\* C21, amended: a bulk recompute gives a field to the host exactly when its
\* derived value differs from the cached one; computeAll run again on the
\* same snapshot changes no cached field and pushes nothing; and after any
\* recompute every cached field for which a value has ever been pushed
\* equals the last value pushed for it (a field whose derived values have
\* always equalled the constructor's default has never been pushed).
C21_RecomputePushesOnlyChanges ==
    [][ltrace'.event = "recomputed" =>
        /\ \A f \in Fields :
              /\ states'[f] = states[f] => pushed'[f] = pushed[f]
              /\ states'[f] # states[f] => pushed'[f] = states'[f]
              /\ pushed'[f] # Unset => states'[f] = pushed'[f]
        /\ computeAll([states |-> states', pushed |-> pushed'], device')
               = [states |-> states', pushed |-> pushed']]_vars

\* After a recompute that changed and pushed the current state and left the
\* contact state at the constructor's default, never pushed.
C21_Witness ==
    /\ ltrace.event = "recomputed"
    /\ device.online
    /\ states.LockCurrentState = UNKNOWN
    /\ pushed.LockCurrentState = UNKNOWN
    /\ states.ContactSensorState = CONTACT_DETECTED
    /\ pushed.ContactSensorState = Unset

\* C22: the current-state updates of the accepted commands are applied in
\* submission order, whatever order their remote calls settle in: a command
\* joins the queue at its end, the settling of a call changes no cached or
\* pushed value, and the task that ends is always the oldest one, whose own
\* call has settled, and it leaves the current state at its value on
\* success and at UNKNOWN on failure.  So the task that empties the queue is
\* the one of the last accepted command.
\* (A step in which only the clock advances is no step of the controller.)
C22_AppliedInSubmissionOrder ==
    [][now' # now
       \/
       /\ ltrace'.event = "accepted" =>
            /\ Len(queue') = Len(queue) + 1
            /\ SubSeq(queue', 1, Len(queue)) = queue
            /\ queue'[Len(queue')].value = ltrace'.value
       /\ (Len(queue') = Len(queue) /\ queue' # queue) =>
            UNCHANGED <<states, pushed>>
       /\ ltrace'.event \in {"taskDone", "taskFailed"} =>
            /\ queue # <<>>
            /\ queue' = Tail(queue)
            /\ queue[1].call \in {"resolved", "rejected"}
            /\ ltrace'.value = queue[1].value
            /\ (ltrace'.event = "taskDone") = (queue[1].call = "resolved")
            /\ states'.LockCurrentState =
                   IF queue[1].call = "resolved" THEN queue[1].value
                   ELSE UNKNOWN]_vars

\* The queue has drained after a later command's call had failed before an
\* earlier command's call settled, and the last task has left UNKNOWN.
C22_Witness ==
    /\ unhandled
    /\ queue = <<>>
    /\ ltrace.event = "taskFailed"
    /\ states.LockCurrentState = UNKNOWN
    /\ pushed.LockCurrentState = UNKNOWN
=============================================================================
